---- MODULE Spec2Model ----
(***************************************************************************)
(* Email -> Quote extraction pipeline: persistence/idempotency layer       *)
(* (app/db/crud), normalization (app/extract/normalize.py), prefilter      *)
(* (app/extract/prefilter.py) and the orchestrator process_email           *)
(* (app/extract/pipeline.py).                                              *)
(*                                                                         *)
(* Conventions.  A nullable column / Optional value is a set with at most  *)
(* one element: None == {} is SQL NULL / Python None, Some(x) == {x} is a  *)
(* present value, so that Some("") (the empty string) differs from None.   *)
(* A nullable integer key uses the same encoding.  Text that the code      *)
(* searches is a sequence of one-character strings.  Money is integral.    *)
(***************************************************************************)
EXTENDS Integers, Sequences, FiniteSets, TLC

None == {}
Some(x) == {x}
Val(o) == CHOOSE x \in o : TRUE

\* Python truthiness of an Optional[str]: None and "" are falsy.
TruthyStr(o) == o # None /\ o # Some("")
\* Python truthiness of an Optional number: None and 0 are falsy.
TruthyNum(o) == o # None /\ o # Some(0)

----------------------------------------------------------------------------
(* Bounds *)

\* number of sequential process_email runs explored by Spec
MaxRuns == 3
\* number of upsert_vendor calls explored by SpecVendor
MaxCalls == 4

\* number of pieces in a subject or body handed to likely_contains_quote by SpecPrefilter
MaxFragments == 2

\* number of items in a version handed to normalize_extraction by SpecNormalize
MaxItems == 2

\* number of message files one ingestion run persists in SpecIngest
MaxFiles == 3

----------------------------------------------------------------------------
(* Stored messages (written by the ingestion layer, read-only here) *)

T_quotation == <<"Q","u","o","t","a","t","i","o","n">>
T_re        == <<"R","e">>
T_pricing   == <<"<","p",">","P","R","I","C","I","N","G">>
T_invoice   == <<"i","n","v","o","i","c","e">>
T_fyi       == <<"F","Y","I">>
T_hello     == <<"h","e","l","l","o">>

Body(mime, text, html) == [mime_type |-> mime, body_text |-> text, body_html |-> html]

Emails ==
  (1 :> [thread_id |-> 1, subject |-> Some(T_quotation),
         bodies |-> <<Body("text/plain", Some(T_hello), None),
                      Body("text/html", None, Some(T_hello))>>])
  @@
  (2 :> [thread_id |-> 1, subject |-> Some(T_re),
         bodies |-> <<Body("text/plain", Some(<<>>), None),
                      Body("text/html", None, Some(T_pricing))>>])
  @@
  (3 :> [thread_id |-> 2, subject |-> None,
         bodies |-> <<Body("text/plain", Some(T_invoice), None)>>])
  @@
  (4 :> [thread_id |-> 2, subject |-> Some(T_fyi),
         bodies |-> <<Body("text/plain", Some(T_hello), None)>>])

\* ids a caller may pass to process_email; 5 names no stored message
EmailIds == {1, 2, 3, 4, 5}

----------------------------------------------------------------------------
(* Prefilter *)

ToLower ==
  ("Q" :> "q") @@ ("R" :> "r") @@ ("P" :> "p") @@ ("I" :> "i") @@ ("C" :> "c")
  @@ ("N" :> "n") @@ ("G" :> "g") @@ ("F" :> "f") @@ ("Y" :> "y")

lower(text) ==
  [i \in 1..Len(text) |-> IF text[i] \in DOMAIN ToLower THEN ToLower[text[i]] ELSE text[i]]

Contains(text, k) ==
  \E i \in 1..(Len(text) - Len(k) + 1) : SubSeq(text, i, i + Len(k) - 1) = k

keywords ==
  { <<"q","u","o","t","e">>,
    <<"q","u","o","t","a","t","i","o","n">>,
    <<"p","r","o","p","o","s","a","l">>,
    <<"e","s","t","i","m","a","t","e">>,
    <<"p","r","i","c","i","n","g">>,
    <<"p","r","o","f","o","r","m","a">>,
    <<"i","n","v","o","i","c","e">> }

\* faulty variant: nothing is filtered out
likely_contains_quote_always(subject, body_text) == TRUE

\* faulty variant: subject and body joined with nothing between them
likely_contains_quote_joined(subject, body_text) ==
  LET text == lower(subject \o (IF body_text = None THEN <<>> ELSE Val(body_text)))
  IN  \E k \in keywords : Contains(text, k)

\* subject: str, body_text: Optional[str]
likely_contains_quote(subject, body_text) ==
  LET text == lower(subject \o <<"\n">> \o (IF body_text = None THEN <<>> ELSE Val(body_text)))
  IN  \E k \in keywords : Contains(text, k)

\* next((... for b in bodies if cond(b)), None)
RECURSIVE FirstBody(_, _, _)
FirstBody(bodies, mime, field) ==
  IF bodies = <<>> THEN None
  ELSE LET b == Head(bodies)
           t == IF field = "text" THEN b.body_text ELSE b.body_html
       IN IF b.mime_type = mime /\ t # None /\ t # Some(<<>>)
          THEN t ELSE FirstBody(Tail(bodies), mime, field)

\* plain or (html or "")
SelectBody(email) ==
  LET plain == FirstBody(email.bodies, "text/plain", "text")
      html  == FirstBody(email.bodies, "text/html", "html")
  IN IF plain # None THEN plain ELSE IF html # None THEN html ELSE Some(<<>>)

----------------------------------------------------------------------------
(* Normalization *)

\* a supplied value that Decimal(str(v)) rejects, such as the text "n/a":
\* neither None nor Some(number)
Unparseable == {0, 1}

\* Decimal(str(v)) of a number; None for None and for a value Decimal rejects
to_decimal(v) == IF v = None \/ v = Unparseable THEN None ELSE v

\* `_to_decimal(x) or Decimal("0")`
OrZero(o) == IF TruthyNum(o) THEN Val(o) ELSE 0

\* faulty variant: the discount is added
compute_line_total_plus(quantity, unit_price, discount) ==
  IF TruthyNum(discount) THEN quantity * unit_price + Val(discount)
  ELSE quantity * unit_price

compute_line_total(quantity, unit_price, discount) ==
  IF TruthyNum(discount) THEN quantity * unit_price - Val(discount)
  ELSE quantity * unit_price

\* faulty variant: the values are counted, not added
sum_totals_count(values) == Len(values)

RECURSIVE sum_totals(_)
sum_totals(values) ==
  IF values = <<>> THEN 0 ELSE Head(values) + sum_totals(Tail(values))

NormItem(it) ==
  [it EXCEPT !.line_total =
     Some(compute_line_total(OrZero(to_decimal(it.quantity)),
                             OrZero(to_decimal(it.unit_price)),
                             to_decimal(it.discount)))]

NormVersion(v) ==
  LET items     == [i \in 1..Len(v.items) |-> NormItem(v.items[i])]
      dec_items == [i \in 1..Len(items) |-> Val(items[i].line_total)]
      subtotal  == IF to_decimal(v.subtotal) = None THEN sum_totals(dec_items)
                   ELSE Val(v.subtotal)
      tax       == OrZero(to_decimal(v.tax))
      shipping  == OrZero(to_decimal(v.shipping))
      total     == IF to_decimal(v.total) = None THEN Some(subtotal + tax + shipping)
                   ELSE v.total
  IN [v EXCEPT !.items = items, !.subtotal = Some(subtotal), !.total = total]

normalize_extraction(data) ==
  [data EXCEPT !.versions = [i \in 1..Len(data.versions) |-> NormVersion(data.versions[i])]]

----------------------------------------------------------------------------
(* Durable store.  A store is a record of the four tables the pipeline      *)
(* writes plus the id sequences (autoincrement primary keys).               *)

EmptyStore ==
  [vendors |-> {}, quotes |-> {}, versions |-> {}, items |-> {},
   seq |-> [vendors |-> 0, quotes |-> 0, versions |-> 0, items |-> 0]]

\* class Vendor
Vendor(id, name, domain) == [id |-> id, name |-> name, domain |-> domain]

\* class Quote
Quote(id, thread_id, vendor_id, anchor_email_id) ==
  [id |-> id, thread_id |-> thread_id, vendor_id |-> vendor_id,
   anchor_email_id |-> anchor_email_id, status |-> "active"]

\* class QuoteVersion; f carries the keyword arguments of get_or_create_version
QuoteVersion(id, quote_id, source_email_id, f) ==
  [id |-> id, quote_id |-> quote_id, source_email_id |-> source_email_id,
   version_label |-> f.version_label, currency |-> f.currency,
   subtotal |-> f.subtotal, tax |-> f.tax, shipping |-> f.shipping,
   total |-> f.total, valid_till |-> f.valid_till, terms |-> f.terms,
   extracted_json |-> f.extracted_json]

\* class QuoteItem
QuoteItem(id, version_id, it) ==
  [id |-> id, quote_version_id |-> version_id, sku |-> it.sku,
   description |-> it.description, quantity |-> it.quantity,
   unit_price |-> it.unit_price, discount |-> it.discount,
   line_total |-> it.line_total]

\* faulty variant: the unique constraint is not declared
uq_not_declared(rows, r) == FALSE

\* UniqueConstraint("quote_id", "source_email_id", name="uq_quote_source_email"):
\* would adding/keeping row r in table rows break the constraint?
uq_quote_source_email(rows, r) ==
  \E o \in rows : o.id # r.id /\ o.quote_id = r.quote_id
                  /\ o.source_email_id = r.source_email_id

----------------------------------------------------------------------------
(* app/db/crud/vendors.py *)

Raised(d) == [db |-> d, id |-> 0, raised |-> TRUE]
Ok(d, id) == [db |-> d, id |-> id, raised |-> FALSE]

SetRow(rows, old, new) == (rows \ {old}) \cup {new}

\* faulty variant: no lookup by domain, only the fallback by name
upsert_vendor_by_name_only(d, name, domain) ==
  LET byName == {v \in d.vendors : v.name = name}
  IN
  IF TruthyStr(name) /\ Cardinality(byName) > 1 THEN Raised(d)
  ELSE IF TruthyStr(name) /\ byName # {} THEN
    LET vendor == CHOOSE v \in byName : TRUE
    IN IF TruthyStr(domain) /\ ~TruthyStr(vendor.domain)
       THEN Ok([d EXCEPT !.vendors = SetRow(@, vendor, [vendor EXCEPT !.domain = domain])],
               vendor.id)
       ELSE Ok(d, vendor.id)
  ELSE LET id == d.seq.vendors + 1
       IN Ok([d EXCEPT !.vendors = @ \cup {Vendor(id, name, domain)},
                       !.seq.vendors = id], id)

\* faulty variant: a record found by domain takes the supplied name even when it has one
upsert_vendor_overwrite(d, name, domain) ==
  LET byDomain == {v \in d.vendors : v.domain = domain}
      byName   == {v \in d.vendors : v.name = name}
  IN
  IF TruthyStr(domain) /\ Cardinality(byDomain) > 1 THEN Raised(d)
  ELSE IF TruthyStr(domain) /\ byDomain # {} THEN
    LET vendor == CHOOSE v \in byDomain : TRUE
    IN IF TruthyStr(name)
       THEN Ok([d EXCEPT !.vendors = SetRow(@, vendor, [vendor EXCEPT !.name = name])],
               vendor.id)
       ELSE Ok(d, vendor.id)
  ELSE IF TruthyStr(name) /\ Cardinality(byName) > 1 THEN Raised(d)
  ELSE IF TruthyStr(name) /\ byName # {} THEN
    LET vendor == CHOOSE v \in byName : TRUE
    IN IF TruthyStr(domain) /\ ~TruthyStr(vendor.domain)
       THEN Ok([d EXCEPT !.vendors = SetRow(@, vendor, [vendor EXCEPT !.domain = domain])],
               vendor.id)
       ELSE Ok(d, vendor.id)
  ELSE LET id == d.seq.vendors + 1
       IN Ok([d EXCEPT !.vendors = @ \cup {Vendor(id, name, domain)},
                       !.seq.vendors = id], id)

upsert_vendor(d, name, domain) ==
  LET byDomain == {v \in d.vendors : v.domain = domain}
      byName   == {v \in d.vendors : v.name = name}
      create   == LET id == d.seq.vendors + 1
                  IN Ok([d EXCEPT !.vendors = @ \cup {Vendor(id, name, domain)},
                                  !.seq.vendors = id], id)
  IN
  IF TruthyStr(domain) /\ Cardinality(byDomain) > 1 THEN Raised(d)
  ELSE IF TruthyStr(domain) /\ byDomain # {} THEN
    LET vendor == CHOOSE v \in byDomain : TRUE
    IN IF TruthyStr(name) /\ ~TruthyStr(vendor.name)
       THEN Ok([d EXCEPT !.vendors = SetRow(@, vendor, [vendor EXCEPT !.name = name])],
               vendor.id)
       ELSE Ok(d, vendor.id)
  ELSE IF TruthyStr(name) /\ Cardinality(byName) > 1 THEN Raised(d)
  ELSE IF TruthyStr(name) /\ byName # {} THEN
    LET vendor == CHOOSE v \in byName : TRUE
    IN IF TruthyStr(domain) /\ ~TruthyStr(vendor.domain)
       THEN Ok([d EXCEPT !.vendors = SetRow(@, vendor, [vendor EXCEPT !.domain = domain])],
               vendor.id)
       ELSE Ok(d, vendor.id)
  ELSE create

----------------------------------------------------------------------------
(* app/db/crud/quotes.py *)

\* an `int | None` argument (0 stands for None) as the column value it is stored as
OptId(id) == IF id = 0 THEN None ELSE Some(id)

\* faulty variant: no lookup, a Quote is created on every call
get_or_create_quote_always_new(d, thread_id, vendor_id, anchor_email_id) ==
  LET id == d.seq.quotes + 1
  IN Ok([d EXCEPT !.quotes = @ \cup {Quote(id, thread_id, vendor_id, OptId(anchor_email_id))},
                  !.seq.quotes = id], id)

\* faulty variant: a supplied anchor replaces the stored one
get_or_create_quote_reanchor(d, thread_id, vendor_id, anchor_email_id) ==
  LET q == {x \in d.quotes : x.thread_id = thread_id /\ x.vendor_id = vendor_id}
  IN
  IF Cardinality(q) > 1 THEN Raised(d)
  ELSE IF q = {} THEN
    LET id == d.seq.quotes + 1
    IN Ok([d EXCEPT !.quotes = @ \cup {Quote(id, thread_id, vendor_id, OptId(anchor_email_id))},
                    !.seq.quotes = id], id)
  ELSE
    LET quote == CHOOSE x \in q : TRUE
    IN IF anchor_email_id # 0
       THEN Ok([d EXCEPT !.quotes = SetRow(@, quote,
                                   [quote EXCEPT !.anchor_email_id = Some(anchor_email_id)])],
               quote.id)
       ELSE Ok(d, quote.id)

get_or_create_quote(d, thread_id, vendor_id, anchor_email_id) ==
  LET q == {x \in d.quotes : x.thread_id = thread_id /\ x.vendor_id = vendor_id}
  IN
  IF Cardinality(q) > 1 THEN Raised(d)
  ELSE IF q = {} THEN
    LET id == d.seq.quotes + 1
    IN Ok([d EXCEPT !.quotes = @ \cup {Quote(id, thread_id, vendor_id, OptId(anchor_email_id))},
                    !.seq.quotes = id], id)
  ELSE
    LET quote == CHOOSE x \in q : TRUE
    IN IF anchor_email_id # 0 /\ quote.anchor_email_id = None
       THEN Ok([d EXCEPT !.quotes = SetRow(@, quote,
                                   [quote EXCEPT !.anchor_email_id = Some(anchor_email_id)])],
               quote.id)
       ELSE Ok(d, quote.id)

\* the one_or_none() query of get_or_create_version
VersionQuery(d, quote_id, source_email_id) ==
  {v \in d.versions : v.quote_id = quote_id /\ v.source_email_id = source_email_id}

\* the branch of get_or_create_version taken after the query returned `found`
\* (at most one row), up to and including db.flush(); the flush raises
\* IntegrityError when the written row breaks uq_quote_source_email
VersionWrite(d, found, quote_id, source_email_id, f) ==
  IF found = {} THEN
    LET id == d.seq.versions + 1
        v  == QuoteVersion(id, quote_id, source_email_id, f)
    IN IF uq_quote_source_email(d.versions, v)
       THEN Raised([d EXCEPT !.seq.versions = id])
       ELSE Ok([d EXCEPT !.versions = @ \cup {v}, !.seq.versions = id], id)
  ELSE
    LET old == CHOOSE x \in found : TRUE
    IN Ok([d EXCEPT !.versions = SetRow(@, old, QuoteVersion(old.id, quote_id, source_email_id, f))],
          old.id)

get_or_create_version(d, quote_id, source_email_id, f) ==
  LET found == VersionQuery(d, quote_id, source_email_id)
  IN IF Cardinality(found) > 1 THEN Raised(d)
     ELSE VersionWrite(d, found, quote_id, source_email_id, f)

\* faulty variant: the existing items are not deleted
replace_items_append(d, version_id, items) ==
  LET new == {QuoteItem(d.seq.items + k, version_id, items[k]) : k \in 1..Len(items)}
  IN [d EXCEPT !.items = @ \cup new, !.seq.items = @ + Len(items)]

replace_items(d, version_id, items) ==
  LET kept == {i \in d.items : i.quote_version_id # version_id}
      new  == {QuoteItem(d.seq.items + k, version_id, items[k]) : k \in 1..Len(items)}
  IN [d EXCEPT !.items = kept \cup new, !.seq.items = @ + Len(items)]

----------------------------------------------------------------------------
(* app/extract/pipeline.py *)

\* date.fromisoformat: the strings it accepts, with the date each denotes
IsoDates == ("2025-01-31" :> <<2025, 1, 31>>)

\* lines 124-133: a string is parsed, an unparseable one becomes None
ParseValidTill(valid_till_val) ==
  IF valid_till_val = None THEN None
  ELSE IF Val(valid_till_val) \in DOMAIN IsoDates THEN Some(IsoDates[Val(valid_till_val)])
  ELSE None

\* faulty variant: currency and total are passed as extracted
VersionFields_as_extracted(ver) ==
  [version_label  |-> ver.version_label,
   currency       |-> ver.currency,
   subtotal       |-> ver.subtotal,
   tax            |-> ver.tax,
   shipping       |-> ver.shipping,
   total          |-> ver.total,
   valid_till     |-> ParseValidTill(ver.valid_till),
   terms          |-> ver.terms,
   extracted_json |-> ver]

\* the keyword arguments process_email passes to get_or_create_version
VersionFields(ver) ==
  [version_label  |-> ver.version_label,
   currency       |-> IF TruthyStr(ver.currency) THEN ver.currency ELSE Some(""),
   subtotal       |-> ver.subtotal,
   tax            |-> ver.tax,
   shipping       |-> ver.shipping,
   total          |-> IF TruthyNum(ver.total) THEN ver.total ELSE Some(0),
   valid_till     |-> ParseValidTill(ver.valid_till),
   terms          |-> ver.terms,
   extracted_json |-> ver]

Result(email_id, processed, reason, versions, raised) ==
  [email_id |-> email_id, processed |-> processed, reason |-> reason,
   versions |-> versions, raised |-> raised]

\* an exception leaves process_email before db.commit(): the session is closed
\* by the caller and its writes are rolled back; sequences are not rolled back
Rollback(d, d2, email_id) ==
  [db |-> [d EXCEPT !.seq = d2.seq], result |-> Result(email_id, FALSE, "raised", 0, TRUE),
   model_called |-> TRUE, commits |-> 0]

\* faulty variant: an absent id yields the first stored message
get_email_with_parts_some(email_id) ==
  IF email_id \in DOMAIN Emails THEN Some(Emails[email_id]) ELSE Some(Emails[1])

\* the Email row with that id, or None
get_email_with_parts(email_id) ==
  IF email_id \in DOMAIN Emails THEN Some(Emails[email_id]) ELSE None

\* the loop of lines 122-149 from version k on
RECURSIVE WriteVersions(_, _, _, _, _)
WriteVersions(d, quote_id, email_id, versions, k) ==
  IF k > Len(versions) THEN [db |-> d, raised |-> FALSE]
  ELSE LET v == get_or_create_version(d, quote_id, email_id, VersionFields(versions[k]))
       IN IF v.raised THEN [db |-> v.db, raised |-> TRUE]
          ELSE WriteVersions(replace_items(v.db, v.id, versions[k].items),
                             quote_id, email_id, versions, k + 1)

\* response: what extract_quote_json returned for this message;
\* model_called: whether extract_quote_json was called; commits: calls of db.commit()
process_email(d, email_id, response) ==
  IF get_email_with_parts(email_id) = None
  THEN [db |-> d, result |-> Result(email_id, FALSE, "email-not-found", 0, FALSE),
        model_called |-> FALSE, commits |-> 0]
  ELSE
    LET email     == Val(get_email_with_parts(email_id))
        subject   == IF email.subject = None THEN <<>> ELSE Val(email.subject)
        body_text == SelectBody(email)
    IN
    IF ~likely_contains_quote(subject, body_text)
    THEN [db |-> d, result |-> Result(email_id, FALSE, "prefilter-skip", 0, FALSE),
          model_called |-> FALSE, commits |-> 0]
    ELSE
      LET extraction == normalize_extraction(response)
          v == upsert_vendor(d, extraction.vendor.name, extraction.vendor.domain)
      IN
      IF v.raised THEN Rollback(d, v.db, email_id)
      ELSE
        LET q == get_or_create_quote(v.db, email.thread_id, v.id, email_id)
        IN
        IF q.raised THEN Rollback(d, q.db, email_id)
        ELSE
          LET w == WriteVersions(q.db, q.id, email_id, extraction.versions, 1)
          IN
          IF w.raised THEN Rollback(d, w.db, email_id)
          ELSE [db |-> w.db,
                result |-> Result(email_id, TRUE, "", Len(extraction.versions), FALSE),
                model_called |-> TRUE, commits |-> 1]

----------------------------------------------------------------------------
(* app/extract/llm.py.  A JSON value is a record of one shape: t is its    *)
(* type, s its text (strings), n its value (numbers), a its elements       *)
(* (arrays), o its members as a function from keys (objects).              *)

JNull   == [t |-> "null",   s |-> "", n |-> 0, a |-> <<>>, o |-> <<>>]
JStr(x) == [t |-> "string", s |-> x,  n |-> 0, a |-> <<>>, o |-> <<>>]
JNum(x) == [t |-> "number", s |-> "", n |-> x, a |-> <<>>, o |-> <<>>]
JArr(x) == [t |-> "array",  s |-> "", n |-> 0, a |-> x,    o |-> <<>>]
JObj(x) == [t |-> "object", s |-> "", n |-> 0, a |-> <<>>, o |-> x]

Has(v, k) == k \in DOMAIN v.o

\* a JSON Schema object node: "required" and the "type" of each listed
\* property; both apply to objects only
ObjectOk(v, required, types) ==
  /\ v.t = "object"
  /\ \A k \in required : Has(v, k)
  /\ \A k \in DOMAIN types : Has(v, k) => v.o[k].t \in types[k]

NumberOrNull == {"number", "null"}
StringOrNull == {"string", "null"}

\* STRICT_JSON_SCHEMA.properties.versions.items.properties.items.items
ValidItem(v) ==
  ObjectOk(v, {"description", "quantity", "unit_price"},
           [sku |-> StringOrNull, description |-> {"string"}, quantity |-> {"number"},
            unit_price |-> {"number"}, discount |-> NumberOrNull,
            line_total |-> NumberOrNull])

\* STRICT_JSON_SCHEMA.properties.versions.items
ValidVersion(v) ==
  /\ ObjectOk(v, {"version_label", "currency", "items", "total"},
              [version_label |-> {"string"}, valid_till |-> StringOrNull,
               currency |-> {"string"}, subtotal |-> NumberOrNull, tax |-> NumberOrNull,
               shipping |-> NumberOrNull, total |-> {"number"}, terms |-> StringOrNull,
               items |-> {"array"}])
  /\ \A i \in 1..Len(v.o.items.a) : ValidItem(v.o.items.a[i])

\* STRICT_JSON_SCHEMA.properties.vendor
ValidVendor(v) ==
  ObjectOk(v, {"name"}, [name |-> {"string"}, domain |-> {"string"}])

\* validator.iter_errors(data) yields nothing
Valid(data) ==
  /\ ObjectOk(data, {"vendor", "versions"}, [vendor |-> {"object"}, versions |-> {"array"}])
  /\ ValidVendor(data.o.vendor)
  /\ \A i \in 1..Len(data.o.versions.a) : ValidVersion(data.o.versions.a[i])

\* dict.setdefault(key, default) on a JSON object
setdefault(obj, key, default) ==
  IF Has(obj, key) THEN obj ELSE [obj EXCEPT !.o = (key :> default) @@ @]

\* {"vendor": {"name": None}, "versions": []} returned when no key is configured
EmptyResult == JObj([vendor |-> JObj([name |-> JNull]), versions |-> JArr(<<>>)])

\* faulty variant: the fallback names a placeholder vendor
SafeBaseline_placeholder ==
  JObj([vendor |-> JObj([name |-> JStr("unknown")]), versions |-> JArr(<<>>)])

\* {"vendor": {"name": None}, "versions": []} substituted by the except clause
SafeBaseline == JObj([vendor |-> JObj([name |-> JNull]), versions |-> JArr(<<>>)])

JItem    == JObj([description |-> JStr("Widget"), quantity |-> JNum(1), unit_price |-> JNum(9)])
JVersion ==
  JObj([version_label |-> JStr("v1"), currency |-> JStr("USD"),
        items |-> JArr(<<JItem>>), total |-> JNum(9)])
JAcme    == JObj([name |-> JStr("Acme")])

\* the payload of test_schema_accepts_minimal_valid_payload as text
ValidText ==
  "{\"vendor\": {\"name\": \"Acme\"}, \"versions\": [{\"version_label\": \"v1\", "
  \o "\"currency\": \"USD\", \"items\": [{\"description\": \"Widget\", "
  \o "\"quantity\": 1, \"unit_price\": 9}], \"total\": 9}]}"

\* json.loads: the texts it parses, with the value each denotes; every other
\* text raises JSONDecodeError
json_loads ==
  ("null" :> JNull)
  @@ ("[]" :> JArr(<<>>))
  @@ ("42" :> JNum(42))
  @@ ("\"quote\"" :> JStr("quote"))
  @@ ("{}" :> JObj(<<>>))
  @@ ("{\"versions\": []}" :> JObj([versions |-> JArr(<<>>)]))
  @@ ("{\"vendor\": {}}" :> JObj([vendor |-> JObj(<<>>)]))
  @@ ("{\"vendor\": null, \"versions\": []}" :>
        JObj([vendor |-> JNull, versions |-> JArr(<<>>)]))
  @@ ("{\"vendor\": \"Acme\", \"versions\": []}" :>
        JObj([vendor |-> JStr("Acme"), versions |-> JArr(<<>>)]))
  @@ ("{\"vendor\": [], \"total\": 9}" :> JObj([vendor |-> JArr(<<>>), total |-> JNum(9)]))
  @@ ("{\"vendor\": {\"name\": \"Acme\"}, \"versions\": \"none\"}" :>
        JObj([vendor |-> JAcme, versions |-> JStr("none")]))
  @@ ("{\"vendor\": {\"name\": \"Acme\", \"domain\": 7}, \"note\": \"x\"}" :>
        JObj([vendor |-> JObj([name |-> JStr("Acme"), domain |-> JNum(7)]),
              note |-> JStr("x")]))
  @@ ("{\"vendor\": {\"name\": \"Acme\"}, \"versions\": [{\"currency\": \"USD\"}]}" :>
        JObj([vendor |-> JAcme, versions |-> JArr(<<JObj([currency |-> JStr("USD")])>>)]))
  @@ ("{\"vendor\": {\"name\": \"Acme\"}, \"versions\": []}" :>
        JObj([vendor |-> JAcme, versions |-> JArr(<<>>)]))
  @@ (ValidText :> JObj([vendor |-> JAcme, versions |-> JArr(<<JVersion>>)]))

\* texts a model reply may carry: the parseable ones, the empty text and prose
ReplyTexts == DOMAIN json_loads \cup {"", "Sorry, I found no quote."}

\* outcome of one API call: it raises, or answers with a text, with content
\* None, or (chat completions only) with an empty choices list
Raises      == [kind |-> "raise",   content |-> None]
NoChoices   == [kind |-> "nochoice", content |-> None]
Reply(c)    == [kind |-> "reply",   content |-> c]

\* resp.output_text is a str
ResponsesOutcomes == {Raises} \cup {Reply(Some(x)) : x \in ReplyTexts}
\* chat.choices may be empty and message.content may be None
ChatOutcomes == {Raises, NoChoices, Reply(None)} \cup {Reply(Some(x)) : x \in ReplyTexts}

\* faulty variant: only an unset key counts as missing
KeyMissing_unset_only(api_key) == api_key = None

\* not settings.OPENAI_API_KEY
KeyMissing(api_key) == ~TruthyStr(api_key)

\* faulty variant: an empty answer of the Responses API is retried with
\* Chat Completions and then with the Responses API again
ModelContent_retry(responses, chat) ==
  IF responses.kind # "raise" /\ TruthyStr(responses.content)
  THEN [raised |-> FALSE, content |-> responses.content, invoked |-> <<"responses">>]
  ELSE IF chat.kind = "raise"
  THEN [raised |-> responses.kind = "raise", content |-> responses.content,
        invoked |-> <<"responses", "chat", "responses">>]
  ELSE [raised |-> FALSE, content |-> chat.content, invoked |-> <<"responses", "chat">>]

\* lines 45-71: the Responses API first, Chat Completions when it raised
ModelContent(responses, chat) ==
  IF responses.kind # "raise"
  THEN [raised |-> FALSE, content |-> responses.content, invoked |-> <<"responses">>]
  ELSE [raised |-> chat.kind = "raise", content |-> chat.content,
        invoked |-> <<"responses", "chat">>]

\* lines 43-80: the parsed reply, or the baseline after any exception
ParsedOrBaseline(responses, chat) ==
  LET m == ModelContent(responses, chat)
  IN IF m.raised \/ ~TruthyStr(m.content) \/ Val(m.content) \notin DOMAIN json_loads
     THEN SafeBaseline
     ELSE json_loads[Val(m.content)]

\* lines 83-88: setdefault raises AttributeError on a value that is no dict
Repaired(data) ==
  IF Valid(data) THEN [raised |-> FALSE, data |-> data]
  ELSE IF data.t # "object" THEN [raised |-> TRUE, data |-> JNull]
  ELSE LET d1 == setdefault(data, "vendor", JObj(<<>>))
       IN IF d1.o.vendor.t # "object" THEN [raised |-> TRUE, data |-> JNull]
          ELSE LET d2 == [d1 EXCEPT !.o.vendor = setdefault(@, "name", JNull)]
               IN [raised |-> FALSE, data |-> setdefault(d2, "versions", JArr(<<>>))]

\* api_key: settings.OPENAI_API_KEY; client_ok: OpenAI(api_key=...) returned;
\* responses, chat: what each API call would do.  invoked lists the API calls made.
extract_quote_json(api_key, client_ok, responses, chat) ==
  IF KeyMissing(api_key)
  THEN [raised |-> FALSE, data |-> EmptyResult, invoked |-> <<>>]
  ELSE IF ~client_ok
  THEN [raised |-> TRUE, data |-> JNull, invoked |-> <<>>]
  ELSE LET r == Repaired(ParsedOrBaseline(responses, chat))
       IN [raised |-> r.raised, data |-> r.data,
           invoked |-> ModelContent(responses, chat).invoked]

----------------------------------------------------------------------------
(* Inputs *)

Item(description, quantity, unit_price, discount, line_total) ==
  [sku |-> None, description |-> Some(description), quantity |-> quantity,
   unit_price |-> unit_price, discount |-> discount, line_total |-> line_total]

ItemA  == Item("Service A", Some(2), Some(10), None, None)
ItemA3 == Item("Service A", Some(3), Some(10), None, Some(30))
ItemB  == Item("Part B", Some(1), Some(5), Some(1), Some(7))

VerA ==
  [version_label |-> Some("v1"), currency |-> Some("USD"), items |-> <<ItemA>>,
   subtotal |-> None, tax |-> Some(0), shipping |-> Some(0), total |-> Some(20),
   valid_till |-> Some("2025-01-31"), terms |-> None]

VerB ==
  [version_label |-> Some("v2"), currency |-> None, items |-> <<ItemA3, ItemB>>,
   subtotal |-> None, tax |-> Some(2), shipping |-> None, total |-> None,
   valid_till |-> Some("soon"), terms |-> Some("net 30")]

VersionLists == { <<>>, <<VerA>>, <<VerB>> }

ExtVendors ==
  { [name |-> None, domain |-> None],
    [name |-> Some("Acme"), domain |-> None],
    [name |-> Some("Bolt"), domain |-> None] }

\* model responses handed to process_email: every vendor with zero or one
\* version, and one response with two versions
Responses ==
  [vendor : ExtVendors, versions : VersionLists]
  \cup [vendor : {[name |-> Some("Acme"), domain |-> None]}, versions : {<<VerA, VerB>>}]

\* {"vendor": {"name": None}, "versions": []}
EmptyExtraction == [vendor |-> [name |-> None, domain |-> None], versions |-> <<>>]

VNames   == {None, Some(""), Some("Acme"), Some("Bolt")}
VDomains == {None, Some(""), Some("acme.com")}

----------------------------------------------------------------------------
(* Transactions.  Each process_email attempt runs on its own session       *)
(* (SessionLocal() in extract_quotes_for_email), i.e. its own PostgreSQL   *)
(* transaction at READ COMMITTED: a statement sees the rows committed when *)
(* it starts plus the transaction's own writes; UPDATE and DELETE lock the *)
(* rows they touch until the transaction ends; an INSERT whose unique key  *)
(* equals the key of another transaction's uncommitted row waits for that  *)
(* transaction, and fails once the key is committed.                       *)

Tables == {"vendors", "quotes", "versions", "items"}

Ids(rows) == {r.id : r \in rows}

\* ins: rows this transaction inserted; upd: new values of committed rows it
\* updated; del: ids of committed rows it deleted
EmptyWrites ==
  [ins |-> [t \in Tables |-> {}], upd |-> [t \in Tables |-> {}],
   del |-> [t \in Tables |-> {}]]

ViewTable(c, ws, t) ==
  {r \in c[t] : r.id \notin Ids(ws.upd[t]) /\ r.id \notin ws.del[t]}
  \cup {r \in ws.upd[t] : r.id \in Ids(c[t])}
  \cup ws.ins[t]

\* what a statement of the transaction with writes ws sees of committed store c
View(c, ws) ==
  [vendors |-> ViewTable(c, ws, "vendors"), quotes |-> ViewTable(c, ws, "quotes"),
   versions |-> ViewTable(c, ws, "versions"), items |-> ViewTable(c, ws, "items"),
   seq |-> c.seq]

\* the writes of the transaction after a statement turned its view into nv
Writes(c, ws, nv) ==
  LET old        == View(c, ws)
      changed(t) == nv[t] \ old[t]
      gone(t)    == Ids(old[t]) \ Ids(nv[t])
  IN [ins |-> [t \in Tables |->
                 {r \in ws.ins[t] : r.id \notin gone(t) /\ r.id \notin Ids(changed(t))}
                 \cup {r \in changed(t) : r.id \notin Ids(c[t])}],
      upd |-> [t \in Tables |->
                 {r \in ws.upd[t] : r.id \notin gone(t) /\ r.id \notin Ids(changed(t))}
                 \cup {r \in changed(t) : r.id \in Ids(c[t])}],
      del |-> [t \in Tables |-> ws.del[t] \cup (gone(t) \cap Ids(c[t]))]]

\* rows a transaction holds locked
Locked(ws, t) == Ids(ws.upd[t]) \cup ws.del[t]

\* the committed store after db.commit() of the transaction with writes ws
Committed(c, ws) == View(c, ws)

\* faulty variant: every flushed statement is committed on its own, so the
\* writes of a transaction that ends without commit stay
RolledBack_autocommit(c, ws) == View(c, ws)

\* the committed store after the session is closed without commit: the
\* transaction is rolled back
RolledBack(c, ws) == c

----------------------------------------------------------------------------
(* State *)

Attempts == {1, 2}

VARIABLES
  db,      \* the committed store
  before,  \* the committed store before the last operation
  last,    \* the last sequential process_email run: message, response, result
  vcall,   \* the last upsert_vendor call: arguments, returned id, raised
  runs,    \* number of sequential operations so far
  tx,      \* the concurrent process_email attempts
  order,   \* the attempts that committed, in commit order
  call,    \* the last direct call of a function: its name, arguments and outcome
  ing      \* ingestion: its transaction, the committed messages, the job queue

vars == <<db, before, last, vcall, runs, tx, order, call, ing>>

NoRun  == [email_id |-> 0, response |-> EmptyExtraction,
           result |-> Result(0, FALSE, "none", 0, FALSE),
           model_called |-> FALSE, commits |-> 0]
NoCall == [name |-> None, domain |-> None, id |-> 0, raised |-> FALSE, called |-> FALSE]

\* next: index of the next file; flushed: messages persisted but not committed;
\* stored: committed messages; queue: enqueued jobs; results: what the jobs returned
NoIngestion ==
  [pc |-> "files", next |-> 1, flushed |-> {}, stored |-> {}, queue |-> <<>>,
   results |-> {}]

Idle ==
  [pc |-> "idle", email_id |-> 0, response |-> EmptyExtraction, extraction |-> EmptyExtraction,
   ws |-> EmptyWrites, vendor_id |-> 0, quote_id |-> 0, k |-> 0, found |-> {},
   result |-> Result(0, FALSE, "none", 0, FALSE)]

Init ==
  /\ db = EmptyStore
  /\ before = EmptyStore
  /\ last = NoRun
  /\ vcall = NoCall
  /\ runs = 0
  /\ tx = [a \in Attempts |-> Idle]
  /\ order = <<>>
  /\ call = [op |-> "none"]
  /\ ing = NoIngestion

\* one sequential process_email call on its own session, committed or rolled back;
\* the model is not invoked for a missing or filtered-out message
ProcessEmail(email_id, response) ==
  /\ runs < MaxRuns
  /\ \A a \in Attempts : tx[a].pc = "idle"
  /\ LET r == process_email(db, email_id, response)
     IN /\ r.result.reason \in {"email-not-found", "prefilter-skip"}
             => response = EmptyExtraction
        /\ db' = r.db
        /\ last' = [email_id |-> email_id, response |-> response, result |-> r.result,
                    model_called |-> r.model_called, commits |-> r.commits]
  /\ before' = db
  /\ runs' = runs + 1
  /\ UNCHANGED <<vcall, tx, order, call, ing>>

Next == \E email_id \in EmailIds, response \in Responses : ProcessEmail(email_id, response)

Spec == Init /\ [][Next]_vars

\* one upsert_vendor call followed by the commit of its session
UpsertVendor(name, domain) ==
  /\ runs < MaxCalls
  /\ LET r == upsert_vendor(db, name, domain)
     IN /\ db' = r.db
        /\ vcall' = [name |-> name, domain |-> domain, id |-> r.id,
                     raised |-> r.raised, called |-> TRUE]
  /\ before' = db
  /\ runs' = runs + 1
  /\ UNCHANGED <<last, tx, order, call, ing>>

NextVendor == \E name \in VNames, domain \in VDomains : UpsertVendor(name, domain)

SpecVendor == Init /\ [][NextVendor]_vars

\* pieces the subjects and bodies of direct likely_contains_quote calls are made of
Fragments ==
  { <<"q","u","o">>, <<"t","e">>, <<"P","r","i","c">>, <<"I","N","G">>, <<"F","Y","I">> }

RECURSIVE Flatten(_)
Flatten(pieces) == IF pieces = <<>> THEN <<>> ELSE Head(pieces) \o Flatten(Tail(pieces))

\* every text of at most MaxFragments pieces, the empty text included
Texts == {Flatten(p) : p \in UNION {[1..n -> Fragments] : n \in 0..MaxFragments}}

\* one likely_contains_quote call; the function keeps nothing between calls,
\* so one call from the initial state stands for any call
LikelyContainsQuote(subject, body_text) ==
  /\ runs = 0
  /\ call' = [op |-> "likely_contains_quote", subject |-> subject, body_text |-> body_text,
              result |-> likely_contains_quote(subject, body_text)]
  /\ runs' = 1
  /\ UNCHANGED <<db, before, last, vcall, tx, order, ing>>

NextPrefilter ==
  /\ runs = 0
  /\ \E subject \in Texts, body_text \in {None} \cup {Some(t) : t \in Texts} :
       LikelyContainsQuote(subject, body_text)

SpecPrefilter == Init /\ [][NextPrefilter]_vars

\* items of direct normalize_extraction calls: the two of the unit test, and
\* items with absent, zero and unparseable fields and a supplied line_total
NormItems ==
  { Item("A", Some(2), Some(10), None, None),
    Item("B", Some(1), Some(5), Some(1), None),
    Item("B", Some(1), Some(5), Some(1), Some(7)),
    Item("C", Some(3), Some(10), Some(0), Some(30)),
    Item("D", None, Some(10), None, None),
    Item("E", Some(2), Unparseable, Some(1), None),
    Item("F", Unparseable, None, Unparseable, Some(0)) }

NormVersions ==
  [version_label : {Some("v1")}, currency : {Some("USD")},
   items : UNION {[1..n -> NormItems] : n \in 0..MaxItems},
   subtotal : {None, Some(0), Some(50), Unparseable},
   tax : {None, Some(2), Unparseable},
   shipping : {None, Some(3)},
   total : {None, Some(0), Some(99)},
   valid_till : {None}, terms : {None}]

\* the version of test_normalize_computes_line_totals_and_subtotals
TestVersion ==
  [version_label |-> Some("v1"), currency |-> Some("USD"),
   items |-> <<Item("A", Some(2), Some(10), None, None),
               Item("B", Some(1), Some(5), Some(1), None)>>,
   subtotal |-> None, tax |-> Some(2), shipping |-> Some(3), total |-> None,
   valid_till |-> None, terms |-> None]

\* one normalize_extraction call; the function keeps nothing between calls,
\* so one call from the initial state stands for any call
NormalizeExtraction(data) ==
  /\ runs = 0
  /\ call' = [op |-> "normalize_extraction", data |-> data,
              out |-> normalize_extraction(data)]
  /\ runs' = 1
  /\ UNCHANGED <<db, before, last, vcall, tx, order, ing>>

NextNormalize ==
  /\ runs = 0
  /\ \E v \in NormVersions : \E versions \in {<<v>>, <<TestVersion, v>>} :
       NormalizeExtraction([vendor |-> [name |-> Some("ACME"), domain |-> None],
                            versions |-> versions])

SpecNormalize == Init /\ [][NextNormalize]_vars

ApiKeys == {None, Some(""), Some("sk-test")}

\* one extract_quote_json call; the function keeps nothing between calls, so
\* one call from the initial state stands for any call
ExtractQuoteJson(api_key, client_ok, responses, chat) ==
  /\ runs = 0
  /\ LET r == extract_quote_json(api_key, client_ok, responses, chat)
     IN call' = [op |-> "extract_quote_json", api_key |-> api_key, client_ok |-> client_ok,
                 responses |-> responses, chat |-> chat,
                 raised |-> r.raised, data |-> r.data, invoked |-> r.invoked]
  /\ runs' = 1
  /\ UNCHANGED <<db, before, last, vcall, tx, order, ing>>

NextLLM ==
  /\ runs = 0
  /\ \E api_key \in ApiKeys, client_ok \in BOOLEAN,
        responses \in ResponsesOutcomes, chat \in ChatOutcomes :
       ExtractQuoteJson(api_key, client_ok, responses, chat)

SpecLLM == Init /\ [][NextLLM]_vars

\* arguments of direct get_or_create_quote calls; anchor 0 is None
QThreads == {1, 2}
QVendors == {1, 2}
QAnchors == {0, 1, 2, 3}

\* one get_or_create_quote call followed by the commit of its session
GetOrCreateQuote(thread_id, vendor_id, anchor_email_id) ==
  /\ runs < MaxCalls
  /\ LET r == get_or_create_quote(db, thread_id, vendor_id, anchor_email_id)
     IN /\ db' = r.db
        /\ call' = [op |-> "get_or_create_quote", thread_id |-> thread_id,
                    vendor_id |-> vendor_id, anchor_email_id |-> anchor_email_id,
                    id |-> r.id, raised |-> r.raised]
  /\ before' = db
  /\ runs' = runs + 1
  /\ UNCHANGED <<last, vcall, tx, order, ing>>

NextQuote ==
  \E thread_id \in QThreads, vendor_id \in QVendors, anchor_email_id \in QAnchors :
    GetOrCreateQuote(thread_id, vendor_id, anchor_email_id)

SpecQuote == Init /\ [][NextQuote]_vars

----------------------------------------------------------------------------
(* Ingestion and the worker.  ingest_eml_files and sync_threads persist     *)
(* each message in one transaction, enqueue its extraction job inside the  *)
(* loop and commit after the loop; the worker runs the jobs on its own     *)
(* sessions, which see committed rows only.                                *)

\* what the adapter answers in a job: nothing, or one version of vendor Acme
JobResponses ==
  {EmptyExtraction, [vendor |-> [name |-> Some("Acme"), domain |-> None], versions |-> <<VerA>>]}

\* one iteration of the loop: the message is flushed into the ingesting
\* transaction and its job is enqueued, unless the queue is unreachable
IngestFile(enqueue_ok) ==
  /\ ing.pc = "files"
  /\ ing.next <= MaxFiles
  /\ ing' = [ing EXCEPT !.flushed = @ \cup {ing.next},
                        !.queue = IF enqueue_ok THEN Append(@, ing.next) ELSE @,
                        !.next = @ + 1]
  /\ UNCHANGED <<db, before, last, vcall, runs, tx, order, call>>

\* db.commit() after the loop
IngestCommit ==
  /\ ing.pc = "files"
  /\ ing.next > MaxFiles
  /\ ing' = [ing EXCEPT !.pc = "committed", !.stored = @ \cup ing.flushed, !.flushed = {}]
  /\ UNCHANGED <<db, before, last, vcall, runs, tx, order, call>>

\* an exception leaves the ingestion before its commit: nothing is stored
IngestFails ==
  /\ ing.pc = "files"
  /\ ing' = [ing EXCEPT !.pc = "failed", !.flushed = {}]
  /\ UNCHANGED <<db, before, last, vcall, runs, tx, order, call>>

\* extract_quotes_for_email(email_id) run by the worker: process_email on a
\* new session, which finds the message only if its row is committed
RunJob(response) ==
  /\ ing.queue # <<>>
  /\ LET email_id == Head(ing.queue)
         r == IF email_id \in ing.stored
              THEN process_email(db, email_id, response)
              ELSE [db |-> db, result |-> Result(email_id, FALSE, "email-not-found", 0, FALSE),
                    model_called |-> FALSE, commits |-> 0]
     IN /\ db' = r.db
        /\ r.result.reason \in {"email-not-found", "prefilter-skip"}
             => response = EmptyExtraction
        /\ last' = [email_id |-> email_id, response |-> response, result |-> r.result,
                    model_called |-> r.model_called, commits |-> r.commits]
        /\ ing' = [ing EXCEPT !.queue = Tail(@),
                              !.results = @ \cup {[email_id |-> email_id,
                                                   reason |-> r.result.reason]}]
  /\ before' = db
  /\ UNCHANGED <<vcall, runs, tx, order, call>>

NextIngest ==
  \/ \E enqueue_ok \in BOOLEAN : IngestFile(enqueue_ok)
  \/ IngestCommit
  \/ IngestFails
  \/ \E response \in JobResponses : RunJob(response)

SpecIngest == Init /\ [][NextIngest]_vars

----------------------------------------------------------------------------
(* Concurrent attempts: process_email split at its database statements *)

ConcEmails    == {1, 3, 5}
ConcResponses == [vendor : {[name |-> Some("Acme"), domain |-> None]},
                  versions : {<<>>, <<VerA>>, <<VerB>>}]

Active(a) == tx[a].pc \notin {"idle", "done"}

\* the statement of attempt a that turns its writes into ws2 must wait for a
\* row lock held by another running attempt
LockWait(a, ws2) ==
  \E o \in Attempts \ {a}, t \in Tables :
     /\ Active(o)
     /\ (Locked(ws2, t) \ Locked(tx[a].ws, t)) \cap Locked(tx[o].ws, t) # {}

\* the INSERT of a version row by attempt a must wait for another running
\* attempt's uncommitted row with the same (quote_id, source_email_id)
UniqueWait(a, ws2) ==
  \E o \in Attempts \ {a}, v \in ws2.ins["versions"] \ tx[a].ws.ins["versions"] :
     /\ Active(o)
     /\ uq_quote_source_email(tx[o].ws.ins["versions"], v)

Finish(a, result) ==
  [tx[a] EXCEPT !.pc = "done", !.ws = EmptyWrites, !.result = result]

\* faulty variant: the loop is left one version early
AfterVersion_early(written, versions) ==
  IF written >= Len(versions) - 1 THEN "commit" ELSE "query"

\* the for loop of lines 121-149 after `written` versions: the next version's
\* lookup, or db.commit() once every version is written
AfterVersion(written, versions) ==
  IF written = Len(versions) THEN "commit" ELSE "query"

\* an exception propagates out of process_email: rollback, nothing committed
Raise(a) == Finish(a, Result(tx[a].email_id, FALSE, "raised", 0, TRUE))

\* lines 65-109: load the message, prefilter, call the model, normalize
Begin(a, email_id, response) ==
  /\ tx[a].pc = "idle"
  /\ LET r == process_email(EmptyStore, email_id, response)
     IN IF r.result.reason \in {"email-not-found", "prefilter-skip"}
        THEN /\ response = EmptyExtraction
             /\ tx' = [tx EXCEPT ![a] = [Finish(a, r.result) EXCEPT !.email_id = email_id]]
        ELSE tx' = [tx EXCEPT ![a] = [@ EXCEPT !.pc = "vendor", !.email_id = email_id,
                                               !.response = response,
                                               !.extraction = normalize_extraction(response)]]
  /\ UNCHANGED <<db, before, last, vcall, runs, order, call, ing>>

\* lines 112-114: upsert_vendor
StepVendor(a) ==
  /\ tx[a].pc = "vendor"
  /\ LET t == tx[a]
         r == upsert_vendor(View(db, t.ws), t.extraction.vendor.name, t.extraction.vendor.domain)
         ws2 == Writes(db, t.ws, r.db)
     IN IF r.raised
        THEN tx' = [tx EXCEPT ![a] = Raise(a)] /\ db' = RolledBack(db, t.ws)
        ELSE /\ ~LockWait(a, ws2)
             /\ tx' = [tx EXCEPT ![a] = [t EXCEPT !.pc = "quote", !.ws = ws2, !.vendor_id = r.id]]
             /\ db' = [db EXCEPT !.seq = r.db.seq]
  /\ UNCHANGED <<before, last, vcall, runs, order, call, ing>>

\* lines 117-118: get_or_create_quote
StepQuote(a) ==
  /\ tx[a].pc = "quote"
  /\ LET t == tx[a]
         r == get_or_create_quote(View(db, t.ws), Emails[t.email_id].thread_id,
                                  t.vendor_id, t.email_id)
         ws2 == Writes(db, t.ws, r.db)
     IN IF r.raised
        THEN tx' = [tx EXCEPT ![a] = Raise(a)] /\ db' = RolledBack(db, t.ws)
        ELSE /\ ~LockWait(a, ws2)
             /\ tx' = [tx EXCEPT ![a] =
                        [t EXCEPT !.pc = AfterVersion(0, t.extraction.versions),
                                  !.ws = ws2, !.quote_id = r.id, !.k = 1]]
             /\ db' = [db EXCEPT !.seq = r.db.seq]
  /\ UNCHANGED <<before, last, vcall, runs, order, call, ing>>

\* quotes.py lines 48-52: the lookup of get_or_create_version for version k
StepQuery(a) ==
  /\ tx[a].pc = "query"
  /\ LET t == tx[a]
         found == VersionQuery(View(db, t.ws), t.quote_id, t.email_id)
     IN IF Cardinality(found) > 1
        THEN tx' = [tx EXCEPT ![a] = Raise(a)] /\ db' = RolledBack(db, t.ws)
        ELSE tx' = [tx EXCEPT ![a] = [t EXCEPT !.pc = "write", !.found = Ids(found)]]
             /\ UNCHANGED db
  /\ UNCHANGED <<before, last, vcall, runs, order, call, ing>>

\* quotes.py lines 53-81 and replace_items for version k
StepWrite(a) ==
  /\ tx[a].pc = "write"
  /\ LET t     == tx[a]
         view  == View(db, t.ws)
         ver   == t.extraction.versions[t.k]
         found == {v \in view.versions : v.id \in t.found}
         r     == VersionWrite(view, found, t.quote_id, t.email_id, VersionFields(ver))
         r2    == replace_items(r.db, r.id, ver.items)
         ws2   == Writes(db, t.ws, r2)
     IN /\ ~UniqueWait(a, Writes(db, t.ws, r.db))
        /\ IF r.raised
           THEN /\ tx' = [tx EXCEPT ![a] = Raise(a)]
                /\ db' = [RolledBack(db, t.ws) EXCEPT !.seq = r.db.seq]
           ELSE /\ ~LockWait(a, ws2)
                /\ tx' = [tx EXCEPT ![a] =
                           [t EXCEPT !.pc = AfterVersion(t.k, t.extraction.versions),
                                     !.ws = ws2, !.k = t.k + 1, !.found = {}]]
                /\ db' = [db EXCEPT !.seq = r2.seq]
  /\ UNCHANGED <<before, last, vcall, runs, order, call, ing>>

\* line 151: db.commit()
StepCommit(a) ==
  /\ tx[a].pc = "commit"
  /\ db' = Committed(db, tx[a].ws)
  /\ tx' = [tx EXCEPT ![a] =
             Finish(a, Result(tx[a].email_id, TRUE, "", Len(tx[a].extraction.versions), FALSE))]
  /\ order' = Append(order, a)
  /\ UNCHANGED <<before, last, vcall, runs, call, ing>>

\* a storage failure (connection loss) at the statement or commit the attempt
\* is about to run: the exception leaves process_email and the worker closes
\* the session
StepFails(a) ==
  /\ Active(a)
  /\ tx' = [tx EXCEPT ![a] = Raise(a)]
  /\ db' = RolledBack(db, tx[a].ws)
  /\ UNCHANGED <<before, last, vcall, runs, order, call, ing>>

\* a message processed once, sequentially, before the attempts start
PriorRun ==
  /\ runs = 0
  /\ \E email_id \in {1}, response \in ConcResponses : ProcessEmail(email_id, response)

NextConc ==
  \/ PriorRun
  \/ \E a \in Attempts, email_id \in ConcEmails, response \in ConcResponses \cup {EmptyExtraction} :
        Begin(a, email_id, response)
  \/ \E a \in Attempts : StepVendor(a)
  \/ \E a \in Attempts : StepQuote(a)
  \/ \E a \in Attempts : StepQuery(a)
  \/ \E a \in Attempts : StepWrite(a)
  \/ \E a \in Attempts : StepCommit(a)
  \/ \E a \in Attempts : StepFails(a)

SpecConc == Init /\ [][NextConc]_vars

----------------------------------------------------------------------------
(* Properties *)

VersionsOf(d, m) == {v \in d.versions : v.source_email_id = m}
QuotesOf(d, m) == {q \in d.quotes : \E v \in VersionsOf(d, m) : v.quote_id = q.id}
ItemsOf(d, version_id) == {i \in d.items : i.quote_version_id = version_id}
StripId(rows) == {[r EXCEPT !.id = 0] : r \in rows}

\* the same rows, item rows compared without their surrogate ids
SameRows(d1, d2) ==
  /\ d1.vendors = d2.vendors
  /\ d1.quotes = d2.quotes
  /\ d1.versions = d2.versions
  /\ StripId(d1.items) = StripId(d2.items)
  /\ Cardinality(d1.items) = Cardinality(d2.items)

NoDupQuotes(d) ==
  \A q1, q2 \in d.quotes :
     (q1.thread_id = q2.thread_id /\ q1.vendor_id = q2.vendor_id) => q1 = q2

NoDupVersions(d) ==
  \A v1, v2 \in d.versions :
     (v1.quote_id = v2.quote_id /\ v1.source_email_id = v2.source_email_id) => v1 = v2

\* the last sequential run processed a first extraction of its message that
\* names a vendor and has one version
FirstNamedSingle ==
  /\ last.result.processed
  /\ last.response.vendor.name # None
  /\ Len(last.response.versions) = 1
  /\ VersionsOf(before, last.email_id) = {}

\* C1: after process_email(m) succeeded for a response that names a vendor and
\* has one version, m having no version before, there is exactly one Quote and
\* one QuoteVersion for m, and running process_email(m) again with the same
\* response succeeds, adds no row, keeps that one quote and one version, and
\* leaves the version's items equal as a set.
C1_Idempotent ==
  FirstNamedSingle =>
    LET m  == last.email_id
        r2 == process_email(db, m, last.response)
    IN /\ Cardinality(VersionsOf(db, m)) = 1
       /\ Cardinality(QuotesOf(db, m)) = 1
       /\ r2.result.processed /\ r2.result.versions = 1
       /\ VersionsOf(r2.db, m) = VersionsOf(db, m)
       /\ QuotesOf(r2.db, m) = QuotesOf(db, m)
       /\ \A v \in VersionsOf(db, m) :
             /\ StripId(ItemsOf(r2.db, v.id)) = StripId(ItemsOf(db, v.id))
             /\ Cardinality(ItemsOf(r2.db, v.id)) = Cardinality(ItemsOf(db, v.id))
       /\ SameRows(r2.db, db)

\* the second of two identical runs has been executed and changed no row
C1_Witness ==
  /\ last.result.processed
  /\ last.response.vendor.name # None
  /\ Len(last.response.versions) = 1
  /\ Cardinality(VersionsOf(db, last.email_id)) = 1
  /\ VersionsOf(before, last.email_id) = VersionsOf(db, last.email_id)
  /\ \E v \in VersionsOf(db, last.email_id) : ItemsOf(db, v.id) # {}
  /\ SameRows(before, db)

\* C2: a second process_email run for the same message with the same response
\* (the empty extraction included) leaves the Vendor, Quote, QuoteVersion and
\* QuoteItem rows exactly as the first run left them.
C2_RedundantRunNoEffect ==
  last.result.processed =>
    SameRows(process_email(db, last.email_id, last.response).db, db)

\* C3: the committed store never holds two QuoteVersion rows for the same
\* (quote, source message), however attempts interleave.
C3_OneVersionPerQuoteAndMessage == NoDupVersions(db)

\* two attempts wrote a version of the same message under the same quote: one
\* committed it, the other's insert hit the unique key
C3_Witness ==
  \E a, b \in Attempts :
     /\ a # b
     /\ tx[a].pc = "done" /\ tx[b].pc = "done"
     /\ tx[a].email_id = tx[b].email_id
     /\ tx[a].quote_id = tx[b].quote_id
     /\ tx[a].result.processed /\ tx[b].result.raised
     /\ Cardinality(VersionsOf(db, tx[a].email_id)) = 1

\* C4: after sequential runs at most one Quote exists per (thread, vendor), and
\* a run creates a Quote only for a pair that had none.
C4_OneQuotePerThreadAndVendor ==
  /\ NoDupQuotes(db)
  /\ \A q \in db.quotes \ before.quotes :
        ~\E o \in before.quotes : o.thread_id = q.thread_id /\ o.vendor_id = q.vendor_id

\* a second message of the thread was processed for the same vendor and its
\* version went under the existing quote
C4_Witness ==
  /\ last.result.processed
  /\ \E q \in db.quotes \cap before.quotes :
        /\ q.thread_id = Emails[last.email_id].thread_id
        /\ q.anchor_email_id # Some(last.email_id)
        /\ \E v \in db.versions \ before.versions :
              v.quote_id = q.id /\ v.source_email_id = last.email_id
  /\ db.quotes = before.quotes

\* C5: with concurrent attempts the committed store never holds two Quote rows
\* with the same (thread, vendor) nor two QuoteVersion rows with the same
\* (quote, source message).
C5_NoDuplicateRows == NoDupQuotes(db) /\ NoDupVersions(db)

\* fields and items attempt a writes for its message (its last version)
WrittenBy(a, v) ==
  LET vers == tx[a].extraction.versions
      ver  == vers[Len(vers)]
  IN /\ v = QuoteVersion(v.id, v.quote_id, tx[a].email_id, VersionFields(ver))
     /\ StripId(ItemsOf(db, v.id)) =
          StripId({QuoteItem(0, v.id, ver.items[k]) : k \in 1..Len(ver.items)})
     /\ Cardinality(ItemsOf(db, v.id)) = Len(ver.items)

\* C6: once two racing attempts for one message with different extractions have
\* both finished, every stored version of the message carries exactly the
\* fields and items of the attempt that committed last.
C6_LastCommitWins ==
  \A a, b \in Attempts :
     ( /\ a # b
       /\ tx[a].pc = "done" /\ tx[b].pc = "done"
       /\ tx[a].email_id = tx[b].email_id
       /\ tx[a].response # tx[b].response
       /\ Len(tx[a].extraction.versions) > 0 /\ Len(tx[b].extraction.versions) > 0
       /\ tx[a].result.processed
       /\ order # <<>> /\ order[Len(order)] = a )
     => \A v \in VersionsOf(db, tx[a].email_id) : WrittenBy(a, v)

\* C7: after sequential runs at most one QuoteVersion has a given message as
\* its source, whatever the extractions were.
C7_OneVersionPerMessage ==
  \A m \in DOMAIN Emails : Cardinality(VersionsOf(db, m)) <= 1

Acme    == Some("Acme")
AcmeCom == Some("acme.com")

\* C8 as stated: after any sequence of upsert_vendor calls no two Vendor
\* records have the same non-null domain.
C8_OneVendorPerNonNullDomain ==
  \A v1, v2 \in db.vendors :
     (v1.domain # None /\ v1.domain = v2.domain) => v1 = v2

\* C8 amended: after any sequence of upsert_vendor calls no two Vendor records
\* have the same non-empty domain (a domain that is neither null nor "").
C8_OneVendorPerDomain ==
  \A v1, v2 \in db.vendors :
     (TruthyStr(v1.domain) /\ v1.domain = v2.domain) => v1 = v2

\* a call supplied the domain of an existing record under another name and
\* was resolved to that record, which stays the only one of its domain
C8_Witness ==
  /\ vcall.called /\ ~vcall.raised
  /\ TruthyStr(vcall.domain) /\ TruthyStr(vcall.name)
  /\ \E v \in before.vendors :
        v.domain = vcall.domain /\ v.id = vcall.id /\ TruthyStr(v.name) /\ v.name # vcall.name
  /\ Cardinality({v \in db.vendors : v.domain = vcall.domain}) = 1
  /\ Cardinality(db.vendors) > 1

\* the store after upsert_vendor("Acme", None); upsert_vendor(None, "acme.com")
AfterTwoObservations ==
  upsert_vendor(upsert_vendor(EmptyStore, Acme, None).db, None, AcmeCom).db

\* C9: from an empty store, upsert_vendor("Acme", None), then
\* upsert_vendor(None, "acme.com"), then upsert_vendor("Acme", "acme.com")
\* leaves exactly one Vendor record, with name and domain populated.
C9_VendorMerge ==
  ( /\ runs = 3
    /\ before = AfterTwoObservations
    /\ vcall.called /\ vcall.name = Acme /\ vcall.domain = AcmeCom )
  => /\ Cardinality(db.vendors) = 1
     /\ \A v \in db.vendors : v.name = Acme /\ v.domain = AcmeCom

\* C10 as stated: once a record's name (domain) is non-null no upsert_vendor
\* call changes it, and a call changes a field of an existing record only when
\* that field is empty and the call supplies the value.
C10_NonNullNeverChanged ==
  [][\A v \in db.vendors : \A w \in db'.vendors :
        w.id = v.id =>
          /\ (v.name # None => w.name = v.name)
          /\ (v.domain # None => w.domain = v.domain)
          /\ (w.name # v.name =>
                ~TruthyStr(v.name) /\ TruthyStr(w.name) /\ w.name = vcall'.name)
          /\ (w.domain # v.domain =>
                ~TruthyStr(v.domain) /\ TruthyStr(w.domain) /\ w.domain = vcall'.domain)]_vars

\* C10 amended: once a record's name (domain) is non-empty (neither null nor
\* "") no upsert_vendor call changes it, and a call changes a field of an
\* existing record only when that field is empty and the call supplies the
\* value.
C10_BackfillOnly ==
  [][\A v \in db.vendors : \A w \in db'.vendors :
        w.id = v.id =>
          /\ (TruthyStr(v.name) => w.name = v.name)
          /\ (TruthyStr(v.domain) => w.domain = v.domain)
          /\ (w.name # v.name =>
                ~TruthyStr(v.name) /\ TruthyStr(w.name) /\ w.name = vcall'.name)
          /\ (w.domain # v.domain =>
                ~TruthyStr(v.domain) /\ TruthyStr(w.domain) /\ w.domain = vcall'.domain)]_vars

\* a call found a record by name and filled in its missing domain; the
\* populated name stayed as it was
C10_Witness ==
  /\ vcall.called /\ ~vcall.raised
  /\ \E v \in before.vendors : \E w \in db.vendors :
        /\ w.id = v.id /\ v.id = vcall.id
        /\ TruthyStr(v.name) /\ v.name = vcall.name /\ w.name = v.name
        /\ ~TruthyStr(v.domain) /\ TruthyStr(w.domain) /\ w.domain = vcall.domain


----------------------------------------------------------------------------
(* Quote anchor *)

\* C11: the anchor of a Quote is set once. A call of get_or_create_quote gives
\* a Quote it creates the anchor it was passed, gives a Quote it finds with no
\* anchor the anchor it was passed, and leaves every non-null anchor as it is.
C11_AnchorSetOnce ==
  [][/\ \A q \in db.quotes : \E q2 \in db'.quotes :
         /\ q2.id = q.id
         /\ q.anchor_email_id # None => q2.anchor_email_id = q.anchor_email_id
         /\ q.anchor_email_id = None =>
              q2.anchor_email_id =
                IF q.id = call'.id THEN OptId(call'.anchor_email_id) ELSE None
     /\ \A q2 \in db'.quotes :
         (\A q \in db.quotes : q.id # q2.id) =>
           q2.id = call'.id /\ q2.anchor_email_id = OptId(call'.anchor_email_id)]_vars

\* a call found a Quote anchored to another message and left the anchor alone
C11_Witness ==
  /\ call.op = "get_or_create_quote"
  /\ call.anchor_email_id # 0
  /\ \E q \in before.quotes :
       /\ q.id = call.id
       /\ q.anchor_email_id \notin {None, Some(call.anchor_email_id)}
       /\ q \in db.quotes
  /\ \E q \in before.quotes : q.anchor_email_id = None

----------------------------------------------------------------------------
(* Re-extraction *)

\* row v of store d carries the fields of extracted version ver for message m,
\* and its items are exactly ver's items, each once
Carries(d, v, m, ver) ==
  /\ v = QuoteVersion(v.id, v.quote_id, m, VersionFields(ver))
  /\ StripId(ItemsOf(d, v.id)) =
       StripId({QuoteItem(0, v.id, ver.items[k]) : k \in 1..Len(ver.items)})
  /\ Cardinality(ItemsOf(d, v.id)) = Len(ver.items)

\* the one version of the last run's extraction, as normalize_extraction leaves it
LastVersion == normalize_extraction(last.response).versions[1]

\* the last run succeeded with a one-version extraction for a message that
\* had a version carrying something else
Reextracted ==
  /\ last.result.processed
  /\ Len(last.response.versions) = 1
  /\ VersionsOf(before, last.email_id) # {}
  /\ \A v \in VersionsOf(before, last.email_id) :
       ~Carries(before, v, last.email_id, LastVersion)

\* C12: after process_email re-ran for a message whose extraction changed, the
\* message has the QuoteVersion ids it had before, and each of its versions
\* carries the fields of the new extraction and exactly its items.
C12_RerunOverwrites ==
  Reextracted =>
    /\ {v.id : v \in VersionsOf(db, last.email_id)} =
         {v.id : v \in VersionsOf(before, last.email_id)}
    /\ \A v \in VersionsOf(db, last.email_id) : Carries(db, v, last.email_id, LastVersion)

\* C13: a successful run returns the number k of versions in its extraction,
\* and the store then holds k QuoteVersion rows with that source message.
C13_ReturnedCountIsRowCount ==
  last.result.processed =>
    /\ last.result.versions = Len(last.response.versions)
    /\ last.result.versions = Cardinality(VersionsOf(db, last.email_id))

----------------------------------------------------------------------------
(* Prefilter *)

HasKeyword(text) == \E k \in keywords : Contains(lower(text), k)

BodyOrEmpty(body_text) == IF body_text = None THEN <<>> ELSE Val(body_text)

\* C14 as stated: likely_contains_quote is true exactly when a keyword occurs
\* in the lower-cased concatenation of subject and body.
C14_KeywordInConcatenation ==
  call.op = "likely_contains_quote" =>
    (call.result <=> HasKeyword(call.subject \o BodyOrEmpty(call.body_text)))

\* C14 amended: likely_contains_quote is true exactly when a keyword occurs in
\* the lower-cased subject or in the lower-cased body, an absent body counted
\* as empty; a keyword that starts in the subject and ends in the body does
\* not count. The call changes no stored row.
C14_KeywordInSubjectOrBody ==
  call.op = "likely_contains_quote" =>
    /\ call.result <=> (HasKeyword(call.subject) \/ HasKeyword(BodyOrEmpty(call.body_text)))
    /\ db = EmptyStore

\* a keyword runs across the end of the subject into the body, and the answer is false
C14_Witness ==
  /\ call.op = "likely_contains_quote"
  /\ call.body_text # None
  /\ ~HasKeyword(call.subject) /\ ~HasKeyword(Val(call.body_text))
  /\ HasKeyword(call.subject \o Val(call.body_text))
  /\ ~call.result

----------------------------------------------------------------------------
(* Terminal outcomes without extraction *)

\* message m is stored, and neither its subject nor the body process_email
\* selects for it holds a keyword
NoKeywordIn(m) ==
  /\ m \in DOMAIN Emails
  /\ ~HasKeyword(IF Emails[m].subject = None THEN <<>> ELSE Val(Emails[m].subject))
  /\ ~HasKeyword(BodyOrEmpty(SelectBody(Emails[m])))

\* C15: a run for a message the prefilter rejects returns processed=false with
\* reason prefilter-skip, does not call the model, does not commit, and leaves
\* every table as it was.
C15_PrefilterSkip ==
  NoKeywordIn(last.email_id) =>
    /\ last.result = Result(last.email_id, FALSE, "prefilter-skip", 0, FALSE)
    /\ ~last.model_called
    /\ last.commits = 0
    /\ db = before

\* a message without keyword was run against a store that holds versions
C15_Witness ==
  /\ NoKeywordIn(last.email_id)
  /\ last.result.reason = "prefilter-skip"
  /\ db.versions # {} /\ db.items # {}

\* C16: a run for an id no message has returns processed=false with reason
\* email-not-found, raises nothing, calls neither the model nor commit, and
\* leaves the store as it was.
C16_EmailNotFound ==
  last.email_id \in EmailIds \ DOMAIN Emails =>
    /\ last.result = Result(last.email_id, FALSE, "email-not-found", 0, FALSE)
    /\ ~last.model_called
    /\ last.commits = 0
    /\ db = before

\* an absent id was run against a store that holds versions
C16_Witness ==
  /\ last.email_id \in EmailIds \ DOMAIN Emails
  /\ last.result.reason = "email-not-found"
  /\ db.versions # {} /\ db.items # {}

----------------------------------------------------------------------------
(* Extraction adapter *)

\* {vendor: {name: null}, versions: []}
CanonicalEmpty == JObj([vendor |-> JObj([name |-> JNull]), versions |-> JArr(<<>>)])

Extracted == call.op = "extract_quote_json"

\* the call got past the key test and built its client
Called == Extracted /\ call.api_key \notin {None, Some("")} /\ call.client_ok

\* the API call whose answer the adapter uses: the fallback when the first raised
Answer == IF call.responses.kind = "raise" THEN call.chat ELSE call.responses

\* the answer carries a text that parses as JSON
Parses == Answer.kind = "reply" /\ Answer.content # None
          /\ Val(Answer.content) \in DOMAIN json_loads
Parsed == json_loads[Val(Answer.content)]

\* C17: with no credential (key unset or empty) extract_quote_json returns
\* exactly the canonical empty result, calls no API and does not raise,
\* whatever the model would have answered.
C17_NoKeyEmptyResult ==
  (Extracted /\ call.api_key \in {None, Some("")}) =>
    /\ ~call.raised
    /\ call.data = CanonicalEmpty
    /\ call.invoked = <<>>

\* no key, while the model would have answered with a valid extraction
C17_Witness ==
  /\ Extracted
  /\ call.api_key = Some("")
  /\ call.responses = Reply(Some(ValidText))
  /\ call.data = CanonicalEmpty /\ call.invoked = <<>>

\* C18: extract_quote_json never raises, whatever the client construction
\* and the API calls do and whatever text the model returns.
C18_NeverRaises == Extracted => ~call.raised

\* C19: when both API calls raise, or the answer is empty, or its text is not
\* JSON, extract_quote_json returns the canonical empty result.
C19_FailureGivesEmptyResult ==
  (Called /\ ~Parses) => (~call.raised /\ call.data = CanonicalEmpty)

\* the first API call raised and the fallback answered with prose
C19_Witness ==
  /\ Called
  /\ call.responses = Raises
  /\ call.chat = Reply(Some("Sorry, I found no quote."))
  /\ call.invoked = <<"responses", "chat">>
  /\ call.data = CanonicalEmpty

\* C20: when the parsed answer fails schema validation it is returned with
\* every member it had (the vendor's members included) unchanged, with a
\* vendor that has a name (null if it had none) and with versions (empty if
\* it had none).
C20_InvalidOutputRepaired ==
  (Called /\ Parses /\ ~Valid(Parsed)) =>
    /\ ~call.raised
    /\ call.data.t = "object"
    /\ \A k \in DOMAIN Parsed.o \ {"vendor"} : Has(call.data, k) /\ call.data.o[k] = Parsed.o[k]
    /\ Has(call.data, "vendor") /\ Has(call.data.o.vendor, "name")
    /\ Has(call.data, "versions")
    /\ IF Has(Parsed, "vendor")
       THEN \A k \in DOMAIN Parsed.o.vendor.o :
               Has(call.data.o.vendor, k) /\ call.data.o.vendor.o[k] = Parsed.o.vendor.o[k]
       ELSE call.data.o.vendor = JObj([name |-> JNull])
    /\ (Has(Parsed, "vendor") /\ ~Has(Parsed.o.vendor, "name")) =>
         call.data.o.vendor.o.name = JNull
    /\ ~Has(Parsed, "versions") => call.data.o.versions = JArr(<<>>)

----------------------------------------------------------------------------
(* Normalization *)

Normalized == call.op = "normalize_extraction"

\* the number a supplied value counts as: zero when absent or unparseable
NumberOf(o) == IF o = None \/ o = Unparseable THEN 0 ELSE Val(o)

RECURSIVE SumOfLineTotals(_)
SumOfLineTotals(items) ==
  IF items = <<>> THEN 0
  ELSE NumberOf(Head(items).quantity) * NumberOf(Head(items).unit_price)
       - NumberOf(Head(items).discount) + SumOfLineTotals(Tail(items))

\* C21: every line_total, subtotal and total that is non-null in the input of
\* normalize_extraction has the same value in its output.
C21_SuppliedValuesKept ==
  Normalized =>
    \A i \in 1..Len(call.data.versions) :
       LET v == call.data.versions[i]
           w == call.out.versions[i]
       IN /\ v.subtotal # None => w.subtotal = v.subtotal
          /\ v.total # None => w.total = v.total
          /\ \A j \in 1..Len(v.items) :
                v.items[j].line_total # None =>
                  w.items[j].line_total = v.items[j].line_total

\* C22: every item leaves normalize_extraction with line_total = quantity *
\* unit_price - discount, an absent or unparseable quantity, unit price or
\* discount counted as zero.
C22_LineTotal ==
  Normalized =>
    \A i \in 1..Len(call.data.versions) :
       \A j \in 1..Len(call.data.versions[i].items) :
          LET it == call.data.versions[i].items[j]
          IN call.out.versions[i].items[j].line_total =
               Some(NumberOf(it.quantity) * NumberOf(it.unit_price) - NumberOf(it.discount))

\* items {qty 2, price 10} and {qty 1, price 5, discount 1} got 20 and 4,
\* next to a version with an item of unparseable unit price
C22_Witness ==
  /\ Normalized
  /\ Len(call.data.versions) = 2
  /\ call.data.versions[1] = TestVersion
  /\ call.out.versions[1].items[1].line_total = Some(20)
  /\ call.out.versions[1].items[2].line_total = Some(4)
  /\ \E j \in 1..Len(call.data.versions[2].items) :
       call.data.versions[2].items[j].unit_price = Unparseable

\* C23: a version with no subtotal gets the sum of its computed line totals;
\* a version with no total gets subtotal + tax + shipping, a missing tax or
\* shipping counted as zero and the subtotal being the supplied one if
\* present, the derived one otherwise.
C23_SubtotalAndTotal ==
  Normalized =>
    \A i \in 1..Len(call.data.versions) :
       LET v == call.data.versions[i]
           w == call.out.versions[i]
       IN /\ v.subtotal = None => w.subtotal = Some(SumOfLineTotals(v.items))
          /\ (v.total = None /\ v.subtotal \notin {None, Unparseable}) =>
               w.total = Some(Val(v.subtotal) + NumberOf(v.tax) + NumberOf(v.shipping))
          /\ (v.total = None /\ v.subtotal = None) =>
               w.total = Some(SumOfLineTotals(v.items) + NumberOf(v.tax) + NumberOf(v.shipping))

\* line totals 20 and 4, tax 2, shipping 3 gave subtotal 24 and total 29, next
\* to a version whose total was derived from a supplied subtotal
C23_Witness ==
  /\ Normalized
  /\ Len(call.data.versions) = 2
  /\ call.data.versions[1] = TestVersion
  /\ call.out.versions[1].subtotal = Some(24)
  /\ call.out.versions[1].total = Some(29)
  /\ call.data.versions[2].subtotal = Some(50)
  /\ call.data.versions[2].total = None
  /\ call.out.versions[2].total = Some(52)

----------------------------------------------------------------------------
(* Atomicity *)

\* the four tables of a store, without the id sequences
Rows(d) == [t \in Tables |-> d[t]]

\* attempt a ends in this step
Ends(a) == tx[a].pc # "done" /\ tx'[a].pc = "done"

\* C24: an attempt that ends with an error leaves the committed tables as
\* they were, whatever it had written; an attempt that ends with success
\* makes all its writes visible in that one step; and the committed tables
\* change in no other step of an attempt.
C24_Atomic ==
  [][/\ \A a \in Attempts :
          Ends(a) =>
            IF tx'[a].result.raised THEN Rows(db') = Rows(db)
            ELSE IF tx'[a].result.processed
                 THEN Rows(db') = Rows(View(db, tx[a].ws))
                 ELSE Rows(db') = Rows(db)
     /\ Rows(db') # Rows(db) =>
          \/ runs' # runs
          \/ \E a \in Attempts : Ends(a) /\ tx'[a].result.processed]_vars

\* an attempt that had inserted a Quote ended with an error, and no Quote
\* with that id is in the store
C24_Witness ==
  \E a \in Attempts :
     /\ tx[a].pc = "done"
     /\ tx[a].result.raised
     /\ tx[a].quote_id # 0
     /\ tx[a].quote_id \notin Ids(db.quotes)
     /\ db.seq.quotes >= tx[a].quote_id

----------------------------------------------------------------------------
(* Stored versions *)

\* C25: in every committed state every QuoteVersion has a total and a
\* currency that are not null, whether the row was created or overwritten
\* and whatever the extraction supplied.
C25_TotalAndCurrencyNotNull ==
  \A v \in db.versions : v.total # None /\ v.currency # None

\* a stored version was overwritten from an extraction that has neither
\* total nor currency
C25_Witness ==
  /\ last.result.processed
  /\ Len(last.response.versions) = 1
  /\ last.response.versions[1].total = None
  /\ last.response.versions[1].currency = None
  /\ \E v \in VersionsOf(db, last.email_id) :
       /\ v.currency = Some("")
       /\ \E o \in VersionsOf(before, last.email_id) : o.id = v.id /\ o.currency = Some("USD")

\* C26: a process_email run whose extraction has no version creates no Quote.
C26_NoQuoteWithoutVersion ==
  (last.result.processed /\ Len(last.response.versions) = 0) =>
    db.quotes = before.quotes

----------------------------------------------------------------------------
(* Commit *)

HasCommitted(a) == \E i \in 1..Len(order) : order[i] = a

\* C27: a run commits at most once; it commits in the step in which it ends
\* with success, after its vendor upsert, its quote lookup and the write of
\* every version of its extraction, whose rows the commit publishes; a run
\* that ends with email-not-found, prefilter-skip or an error commits nothing.
C27_CommitOnceAtEnd ==
  [][/\ order' # order =>
          \E a \in Attempts :
             /\ order' = Append(order, a)
             /\ ~HasCommitted(a)
             /\ tx[a].pc = "commit" /\ tx'[a].pc = "done"
             /\ tx'[a].result.processed
             /\ tx[a].k = Len(tx[a].extraction.versions) + 1
             /\ tx[a].vendor_id \in Ids(db'.vendors)
             /\ tx[a].quote_id \in Ids(db'.quotes)
             /\ Len(tx[a].extraction.versions) > 0 =>
                  \E v \in db'.versions :
                     /\ v.quote_id = tx[a].quote_id
                     /\ Carries(db', v, tx[a].email_id,
                                tx[a].extraction.versions[Len(tx[a].extraction.versions)])
     /\ \A a \in Attempts :
          Ends(a) => IF tx'[a].result.processed
                     THEN order' = Append(order, a)
                     ELSE order' = order]_vars

\* one run committed a version and the other ended with email-not-found
C27_Witness ==
  \E a, b \in Attempts :
     /\ order = <<a>>
     /\ tx[a].result.processed /\ Len(tx[a].extraction.versions) = 1
     /\ tx[b].pc = "done" /\ tx[b].result.reason = "email-not-found"

----------------------------------------------------------------------------
(* Model invocations *)

\* C28: one extract_quote_json call invokes the Responses API at most once and
\* first, Chat Completions at most once and only when the Responses API
\* raised, hence at most two invocations; when both raise, the result is the
\* canonical empty result.
C28_NoRetry ==
  Extracted =>
    /\ call.invoked \in {<<>>, <<"responses">>, <<"responses", "chat">>}
    /\ call.invoked = <<"responses", "chat">> => call.responses = Raises
    /\ (Called /\ call.responses # Raises) => call.invoked = <<"responses">>
    /\ (Called /\ call.responses = Raises /\ call.chat = Raises) =>
         (~call.raised /\ call.data = CanonicalEmpty)

\* both API calls were made and both raised
C28_Witness ==
  /\ Called
  /\ call.responses = Raises /\ call.chat = Raises
  /\ call.invoked = <<"responses", "chat">>
  /\ call.data = CanonicalEmpty

----------------------------------------------------------------------------
(* Ingestion *)

\* C29: no job that ingestion enqueued ends with email-not-found for a
\* message that the ingestion commits.
C29_JobFindsCommittedMessage ==
  \A r \in ing.results : r.reason = "email-not-found" => r.email_id \notin ing.stored

----------------------------------------------------------------------------
(* Vendor lookups *)

\* C30: after any sequence of upsert_vendor calls, an upsert_vendor call
\* returns a vendor id and does not raise.
C30_UpsertNeverRaises ==
  vcall.called => (~vcall.raised /\ vcall.id \in Ids(db.vendors))

====
